---- MODULE Spec2Model ----
(***************************************************************************)
(* A model of the data layer of the blogging backend: the user store       *)
(* (src/app/user/model.rs), the follow store (src/app/follow/model.rs) and  *)
(* the article handlers (src/app/article/api.rs).  Every handler is a       *)
(* sequence of single SQL statements; a statement is one atomic step, and   *)
(* handlers of different requests interleave between statements.            *)
(***************************************************************************)
EXTENDS Integers, Sequences, FiniteSets, TLC

\* ---------------------------------------------------------------- bounds

\* Number of distinct user ids the database can hand out.
MaxUsers == 2

\* Number of requests that can be in flight at the same time.
MaxProcs == 2

\* Number of article rows the articles table can hold.
MaxArticles == 2

UserIds == 1..MaxUsers
Procs == 1..MaxProcs
ArticleIds == 1..MaxArticles

Emails == {"a@x", "b@x"}
Usernames == {"alice", "bob"}
Passwords == {"pw1", "pw2"}
Salts == {"s1", "s2"}
Bios == {"bio1"}
Images == {"img1"}
Titles == {<< "H", "i" >>, << " ", "H", "i", "!" >>, << "H", "i", "!", " ", "Y", "o" >>}
Descriptions == {"d1", "d2"}
Bodies == {"b1", "b2"}
TagNames == {"t1", "t2"}
\* Utc::now().timestamp_nanos() readings.
Nanos == {1999999999, 2000000000}

\* Option<T>: None is the empty tuple, Some(v) the one-element tuple.
None == << >>
Some(v) == << v >>
Option(S) == {None} \cup {Some(v) : v \in S}
is_some(o) == o # None
unwrap(o) == o[1]

\* ------------------------------------------------------------------ state

VARIABLES
    users,      \* the users table: a set of rows
    follows,    \* the follows table: (follower_id, followee_id) -> number of rows
    articles,   \* the articles table: a sequence of rows, in storage order
    tags,       \* the tags table: the tag names that have a row
    article_tags, \* the article-tag association table: a set of << article_id, tag >>
    pc,         \* per request: the statement the handler is about to issue
    local,      \* per request: the handler's local variables
    response    \* what the last handler step returned

articleVars == << articles, tags, article_tags >>
vars == << users, follows, articles, tags, article_tags, pc, local, response >>

\* ------------------------------------------------- credentials (bcrypt, jwt)

\* A String that holds a caller-supplied plaintext.
Plain(pw) == [kind |-> "plain", text |-> pw, salt |-> "none"]

\* bcrypt::hash(pw, DEFAULT_COST): a salted one-way hash string.
bcrypt_hash(pw, salt) == [kind |-> "bcrypt", text |-> pw, salt |-> salt]

\* bcrypt::verify(pw, hash) -> BcryptResult<bool>: Err when `hash` is not a
\* bcrypt hash string, otherwise Ok(whether pw matches).
bcrypt_verify(pw, stored) ==
    IF stored.kind = "bcrypt"
    THEN [ok |-> TRUE, value |-> (stored.text = pw)]
    ELSE [ok |-> FALSE, value |-> FALSE]

hash_password(naive_pw, salt) == bcrypt_hash(naive_pw, salt)

\* User::generate_token: token::generate(self.id, now), now in seconds.
generate_token(user, nanos) == [user_id |-> user.id, iat |-> nanos \div 1000000000]

\* ------------------------------------------------------- the users table

\* The uniqueness constraints of the users table: no other row holds the
\* row's email or its username.
users_unique_ok(table, row) ==
    \A r \in table : r.id # row.id => (r.email # row.email /\ r.username # row.username)

\* INSERT INTO users ... RETURNING *: the id is generated by the database.
db_insert_user(table, record, new_id) ==
    LET row == [id |-> new_id, email |-> record.email, username |-> record.username,
                password |-> record.password, bio |-> None, image |-> None]
    IN  IF users_unique_ok(table, row)
        THEN [ok |-> TRUE, err |-> "none", table |-> table \cup {row}, row |-> Some(row)]
        ELSE [ok |-> FALSE, err |-> "UniqueViolation", table |-> table, row |-> None]

\* users.filter(email.eq(_email)).limit(1).first()
first_by_email(table, e) ==
    LET hit == {r \in table : r.email = e}
    IN  IF hit = {} THEN None ELSE Some(CHOOSE r \in hit : TRUE)

\* users.filter(username.eq(_username)).first()
first_by_username(table, u) ==
    LET hit == {r \in table : r.username = u}
    IN  IF hit = {} THEN None ELSE Some(CHOOSE r \in hit : TRUE)

\* struct SignupUser
SignupUser(e, u, hashed) == [email |-> e, username |-> u, password |-> hashed]

\* struct UpdatableUser: every field optional.
UpdatableUser == [email : Option(Emails), username : Option(Usernames),
                  password : Option(Passwords), image : Option(Images),
                  bio : Option(Bios)]

\* AsChangeset with treat_none_as_null: a None image or bio is stored as NULL.
apply_user_changeset_none_as_null(row, cs) ==
    [id |-> row.id,
     email |-> IF is_some(cs.email) THEN unwrap(cs.email) ELSE row.email,
     username |-> IF is_some(cs.username) THEN unwrap(cs.username) ELSE row.username,
     password |-> IF is_some(cs.password) THEN Plain(unwrap(cs.password)) ELSE row.password,
     image |-> cs.image,
     bio |-> cs.bio]

\* #[derive(AsChangeset)]: a None field is skipped, a Some field is assigned.
\* The password field is a String and is assigned as it is.
apply_user_changeset(row, cs) ==
    [id |-> row.id,
     email |-> IF is_some(cs.email) THEN unwrap(cs.email) ELSE row.email,
     username |-> IF is_some(cs.username) THEN unwrap(cs.username) ELSE row.username,
     password |-> IF is_some(cs.password) THEN Plain(unwrap(cs.password)) ELSE row.password,
     image |-> IF is_some(cs.image) THEN cs.image ELSE row.image,
     bio |-> IF is_some(cs.bio) THEN cs.bio ELSE row.bio]

changeset_is_empty(cs) ==
    /\ cs.email = None /\ cs.username = None /\ cs.password = None
    /\ cs.image = None /\ cs.bio = None

\* let target = users.filter(id.eq(user_id));
update_target(table, user_id) == {r \in table : r.id = user_id}

\* diesel::update(target).set(changeset).get_result::<User>(conn)
db_update_users(table, target, cs) ==
    LET changed == {apply_user_changeset(r, cs) : r \in target}
        after == (table \ target) \cup changed
    IN  IF changeset_is_empty(cs)
        THEN [ok |-> FALSE, err |-> "QueryBuilderError", table |-> table, row |-> None]
        ELSE IF target = {}
        THEN [ok |-> FALSE, err |-> "NotFound", table |-> table, row |-> None]
        ELSE IF \E r \in changed : ~users_unique_ok(after, r)
        THEN [ok |-> FALSE, err |-> "UniqueViolation", table |-> table, row |-> None]
        ELSE [ok |-> TRUE, err |-> "none", table |-> after,
              row |-> Some(CHOOSE r \in changed : TRUE)]

\* ------------------------------------------------------------ user store

Resp(op, p, status, out) ==
    [op |-> op, proc |-> p, status |-> status, out |-> out]

\* The database's id generator: an id no row of the table holds.
fresh_id(ids, used) == IF ids \ used = {} THEN 0
                       ELSE CHOOSE i \in ids \ used : \A j \in ids \ used : i <= j

NoOut == [user |-> None, token |-> None]

\* signup_insert with ON CONFLICT DO NOTHING: a conflicting insert is not an
\* error, and the row already stored is returned.
signup_insert_on_conflict(table, record, new_id) ==
    LET hit == {r \in table : r.email = record.email \/ r.username = record.username}
    IN  IF hit = {} THEN db_insert_user(table, record, new_id)
        ELSE [ok |-> TRUE, err |-> "none", table |-> table,
              row |-> Some(CHOOSE r \in hit : TRUE)]

\* the statement of User::signup that inserts the record
signup_insert(table, record, new_id) == db_insert_user(table, record, new_id)

User_signup(p, _email, _username, naive_password) ==
    /\ pc[p] = "idle"
    /\ \E salt \in Salts, nanos \in Nanos :
         LET hashed_password == hash_password(naive_password, salt)
             record == SignupUser(_email, _username, hashed_password)
             new_id == fresh_id(UserIds, {r.id : r \in users})
             ins == signup_insert(users, record, new_id)
         IN  /\ ins.ok => new_id # 0
             /\ users' = ins.table
             /\ response' =
                  IF ins.ok
                  THEN Resp("signup", p, "Ok",
                            [user |-> ins.row,
                             token |-> Some(generate_token(unwrap(ins.row), nanos))])
                  ELSE Resp("signup", p, ins.err, NoOut)
    /\ UNCHANGED << follows, articleVars, pc, local >>

\* verify(&naive_password, &user.password)?;
signin_verify(naive_password, stored) ==
    LET v == bcrypt_verify(naive_password, stored)
    IN  IF v.ok THEN "Ok" ELSE "InvalidHash"

User_signin(p, _email, naive_password) ==
    /\ pc[p] = "idle"
    /\ \E nanos \in Nanos :
         LET found == first_by_email(users, _email)
         IN  response' =
               IF found = None
               THEN Resp("signin", p, "NotFound", NoOut)
               ELSE LET user == unwrap(found)
                        checked == signin_verify(naive_password, user.password)
                    IN  IF checked # "Ok"
                        THEN Resp("signin", p, checked, NoOut)
                        ELSE Resp("signin", p, "Ok",
                                  [user |-> found,
                                   token |-> Some(generate_token(user, nanos))])
    /\ UNCHANGED << users, follows, articleVars, pc, local >>

User_update(p, user_id, changeset) ==
    /\ pc[p] = "idle"
    /\ LET target == update_target(users, user_id)
           upd == db_update_users(users, target, changeset)
       IN  /\ users' = upd.table
           /\ response' = Resp("update", p,
                               IF upd.ok THEN "Ok" ELSE upd.err,
                               [user |-> upd.row, token |-> None])
    /\ UNCHANGED << follows, articleVars, pc, local >>


\* ---------------------------------------------------------- follow store

Pairs == UserIds \X UserIds

\* The primary key of the follows table: one row per (follower_id, followee_id).
follows_pk_ok(table, params) == table[<< params.follower_id, params.followee_id >>] = 0

\* INSERT INTO follows
db_insert_follow(table, params) ==
    IF follows_pk_ok(table, params)
    THEN [ok |-> TRUE,
          table |-> [table EXCEPT ![<< params.follower_id, params.followee_id >>] = @ + 1]]
    ELSE [ok |-> FALSE, table |-> table]

\* struct NewFollow, as User::follow fills it
NewFollow(self, followee) == [follower_id |-> self.id, followee_id |-> followee.id]

\* DeleteFollow with the two ids exchanged.
DeleteFollow_swapped(self, followee) == [followee_id |-> self.id, follower_id |-> followee.id]

\* struct DeleteFollow, as User::unfollow fills it
DeleteFollow(self, followee) == [followee_id |-> followee.id, follower_id |-> self.id]

\* create_follow that drops the insert's result instead of .expect on it.
create_follow_unchecked(table, params) ==
    [panicked |-> FALSE, table |-> db_insert_follow(table, params).table]

\* Follow::create_follow: the insert, and .expect on its result
create_follow(table, params) ==
    LET ins == db_insert_follow(table, params)
    IN  [panicked |-> ~ins.ok, table |-> ins.table]

\* delete_follow without the followee_id filter.
delete_follow_by_follower(table, params) ==
    [panicked |-> FALSE,
     table |-> [pr \in DOMAIN table |-> IF pr[1] = params.follower_id THEN 0 ELSE table[pr]]]

\* Follow::delete_follow: deletes the rows matching both ids; deleting no row
\* is not an error.
delete_follow(table, params) ==
    [panicked |-> FALSE,
     table |-> [pr \in DOMAIN table |->
                  IF pr[2] = params.followee_id /\ pr[1] = params.follower_id
                  THEN 0 ELSE table[pr]]]

\* User::is_following
is_following(table, self, _followee_id) == table[<< self.id, _followee_id >>] > 0

\* struct Profile, as follow and unfollow fill it
Profile(self, following) ==
    [username |-> self.username, bio |-> self.bio, image |-> self.image,
     following |-> following]

\* What follow and unfollow return, with the pair of ids the call was about.
ProfileOut(profile, who) == [profile |-> profile, who |-> who]
NoProfile == ProfileOut(None, << >>)

\* User::follow, first statement: the followee is looked up by name.
User_follow_lookup(p, self, _username) ==
    /\ pc[p] = "idle"
    /\ self \in users
    /\ LET followee == first_by_username(users, _username)
       IN  IF followee = None
           THEN /\ response' = Resp("follow", p, "could not find user by name.", NoProfile)
                /\ UNCHANGED << pc, local >>
           ELSE /\ pc' = [pc EXCEPT ![p] = "follow_insert"]
                /\ local' = [local EXCEPT ![p] = [self |-> self, followee |-> unwrap(followee)]]
                /\ response' = Resp("follow", p, "running", NoProfile)
    /\ UNCHANGED << users, follows, articleVars >>

\* User::follow, second statement: the Follow row is inserted.
User_follow_insert(p) ==
    /\ pc[p] = "follow_insert"
    /\ LET self == local[p].self
           followee == local[p].followee
           done == create_follow(follows, NewFollow(self, followee))
       IN  /\ follows' = done.table
           /\ response' =
                IF done.panicked
                THEN Resp("follow", p, "couldn't insert follow.",
                          ProfileOut(None, << self.id, followee.id >>))
                ELSE Resp("follow", p, "Ok",
                          ProfileOut(Some(Profile(self, TRUE)), << self.id, followee.id >>))
    /\ pc' = [pc EXCEPT ![p] = "idle"]
    /\ local' = [local EXCEPT ![p] = None]
    /\ UNCHANGED << users, articleVars >>

\* User::unfollow, first statement.
User_unfollow_lookup(p, self, _username) ==
    /\ pc[p] = "idle"
    /\ self \in users
    /\ LET followee == first_by_username(users, _username)
       IN  IF followee = None
           THEN /\ response' = Resp("unfollow", p, "could not find user by name.", NoProfile)
                /\ UNCHANGED << pc, local >>
           ELSE /\ pc' = [pc EXCEPT ![p] = "unfollow_delete"]
                /\ local' = [local EXCEPT ![p] = [self |-> self, followee |-> unwrap(followee)]]
                /\ response' = Resp("unfollow", p, "running", NoProfile)
    /\ UNCHANGED << users, follows, articleVars >>

\* User::unfollow, second statement: the Follow row is deleted.
User_unfollow_delete(p) ==
    /\ pc[p] = "unfollow_delete"
    /\ LET self == local[p].self
           followee == local[p].followee
           done == delete_follow(follows, DeleteFollow(self, followee))
       IN  /\ follows' = done.table
           /\ response' =
                IF done.panicked
                THEN Resp("unfollow", p, "couldn't delete follow.",
                          ProfileOut(None, << self.id, followee.id >>))
                ELSE Resp("unfollow", p, "Ok",
                          ProfileOut(Some(Profile(self, FALSE)), << self.id, followee.id >>))
    /\ pc' = [pc EXCEPT ![p] = "idle"]
    /\ local' = [local EXCEPT ![p] = None]
    /\ UNCHANGED << users, articleVars >>

\* User::is_following
User_is_following(p, self, _followee_id) ==
    /\ pc[p] = "idle"
    /\ self \in users
    /\ response' = Resp("is_following", p, "Ok",
                        [profile |-> None, who |-> << self.id, _followee_id >>,
                         value |-> is_following(follows, self, _followee_id)])
    /\ UNCHANGED << users, follows, articleVars, pc, local >>

\* ---------------------------------------------------------- article store

\* let offset = 0; let limit = 20; in index
offset_shifted == 0 + 1
offset == 0
limit == 20

Upper == {"H", "Y"}
Lower == {"i", "o"}
is_alphanumeric(c) == c \in Upper \cup Lower
to_lowercase(c) == CASE c = "H" -> "h" [] c = "Y" -> "y" [] OTHER -> c

\* Left to right: an alphanumeric character is appended lower-cased, after one
\* separator when a run of other characters precedes it inside the slug.
RECURSIVE slug_from(_, _, _)
slug_from(rest, acc, gap) ==
    IF rest = << >> THEN acc
    ELSE LET c == Head(rest)
         IN  IF is_alphanumeric(c)
             THEN slug_from(Tail(rest),
                            (IF gap /\ acc # << >> THEN Append(acc, "-") ELSE acc)
                                \o << to_lowercase(c) >>,
                            FALSE)
             ELSE slug_from(Tail(rest), acc, TRUE)

\* Article::convert_title_to_slug
convert_title_to_slug(title) == slug_from(title, << >>, FALSE)

Range(f) == {f[i] : i \in DOMAIN f}

RECURSIVE Filter(_, _)
\* The rows of seq whose position is in keep, in order.
Filter(seq, keep) ==
    IF seq = << >> THEN << >>
    ELSE LET rest == Filter(Tail(seq), {i - 1 : i \in keep \ {1}})
         IN  IF 1 \in keep THEN << Head(seq) >> \o rest ELSE rest

\* struct NewArticle, as create fills it
NewArticle(auth_user, form) ==
    [author_id |-> auth_user.id, title |-> form.title,
     slug |-> convert_title_to_slug(form.title),
     description |-> form.description, body |-> form.body]

\* new_slug in update with the slug left alone.
new_slug_stale(title) == None

\* let new_slug = form.article.title.as_ref().map(convert_title_to_slug) in update
new_slug(title) == IF is_some(title) THEN Some(convert_title_to_slug(unwrap(title))) ELSE None

\* struct UpdateArticle, as update fills it
UpdateArticle(form) ==
    [slug |-> new_slug(form.title), title |-> form.title,
     description |-> form.description, body |-> form.body]

\* INSERT INTO articles ... RETURNING *
db_insert_article(table, record, new_id) ==
    LET row == [id |-> new_id, author_id |-> record.author_id, title |-> record.title,
                slug |-> record.slug, description |-> record.description,
                body |-> record.body]
    IN  [table |-> Append(table, row), row |-> row]

apply_article_changeset(row, cs) ==
    [id |-> row.id, author_id |-> row.author_id,
     title |-> IF is_some(cs.title) THEN unwrap(cs.title) ELSE row.title,
     slug |-> IF is_some(cs.slug) THEN unwrap(cs.slug) ELSE row.slug,
     description |-> IF is_some(cs.description) THEN unwrap(cs.description)
                     ELSE row.description,
     body |-> IF is_some(cs.body) THEN unwrap(cs.body) ELSE row.body]

\* Article::update(conn, &article_id, &UpdateArticle): the provided fields of
\* the row with that id are assigned.
Article_update(table, article_id, cs) ==
    LET hit == {i \in DOMAIN table : table[i].id = article_id}
    IN  IF cs.slug = None /\ cs.title = None /\ cs.description = None /\ cs.body = None
        THEN [ok |-> FALSE, err |-> "QueryBuilderError", table |-> table, row |-> None]
        ELSE IF hit = {}
        THEN [ok |-> FALSE, err |-> "NotFound", table |-> table, row |-> None]
        ELSE LET after == [i \in DOMAIN table |->
                             IF i \in hit THEN apply_article_changeset(table[i], cs)
                             ELSE table[i]]
             IN  [ok |-> TRUE, err |-> "none", table |-> after,
                  row |-> Some(after[CHOOSE i \in hit : TRUE])]

\* delete's target without the id filter.
delete_target_all(table, article_id) == DOMAIN table

\* articles.filter(id.eq(article_id)) in delete: the positions of the rows
delete_target(table, article_id) == {i \in DOMAIN table : table[i].id = article_id}

\* ON DELETE CASCADE from articles to the association table
cascade_delete(assoc, deleted_ids) == {at \in assoc : at[1] \notin deleted_ids}

\* The ids the database will not generate again: those still held by a row or
\* by a request in flight.
held_article_ids ==
    {a.id : a \in Range(articles)} \cup {at[1] : at \in article_tags}
    \cup UNION {IF "article_ids" \in DOMAIN local[p]
                THEN local[p].article_ids ELSE {} : p \in Procs}

ArticleOut(article, tag_list, author) ==
    [article |-> article, tagList |-> tag_list, author |-> author]
NoArticle == ArticleOut(None, {}, None)

CreateForm(titles, descriptions, bodies, taglists) ==
    [title : titles, description : descriptions, body : bodies, tagList : taglists]

UpdateForm(titles, descriptions, bodies) ==
    [title : Option(titles), description : Option(descriptions), body : Option(bodies)]

\* create, first statement of service::create: the article row is inserted.
article_create_insert(p, auth_user, form) ==
    /\ pc[p] = "idle"
    /\ auth_user \in users
    /\ LET new_id == fresh_id(ArticleIds, held_article_ids)
           ins == db_insert_article(articles, NewArticle(auth_user, form), new_id)
       IN  /\ new_id # 0
           /\ articles' = ins.table
           /\ pc' = [pc EXCEPT ![p] = "create_tags"]
           /\ local' = [local EXCEPT ![p] =
                          [article_ids |-> {new_id}, auth_user |-> auth_user,
                           tagList |-> form.tagList]]
           /\ response' = Resp("create", p, "running", NoArticle)
    /\ UNCHANGED << users, follows, tags, article_tags >>

\* create, second statement of service::create: the tags are stored and
\* associated with the article; the association refers to an article row.
article_create_tags(p) ==
    /\ pc[p] = "create_tags"
    /\ LET article_id == CHOOSE i \in local[p].article_ids : TRUE
           hit == {i \in DOMAIN articles : articles[i].id = article_id}
       IN  IF hit = {}
           THEN /\ response' = Resp("create", p, "ForeignKeyViolation", NoArticle)
                /\ UNCHANGED << tags, article_tags >>
           ELSE /\ tags' = tags \cup local[p].tagList
                /\ article_tags' = article_tags \cup {<< article_id, t >> : t \in local[p].tagList}
                /\ response' = Resp("create", p, "Ok",
                                    ArticleOut(Some(articles[CHOOSE i \in hit : TRUE]),
                                               local[p].tagList, Some(local[p].auth_user.id)))
    /\ pc' = [pc EXCEPT ![p] = "idle"]
    /\ local' = [local EXCEPT ![p] = None]
    /\ UNCHANGED << users, follows, articles >>

\* update
article_update(p, auth_user, article_id, form) ==
    /\ pc[p] = "idle"
    /\ auth_user \in users
    /\ LET upd == Article_update(articles, article_id, UpdateArticle(form))
       IN  /\ articles' = upd.table
           /\ response' = Resp("article_update", p, IF upd.ok THEN "Ok" ELSE upd.err,
                               ArticleOut(upd.row, {}, Some(auth_user.id)))
    /\ UNCHANGED << users, follows, tags, article_tags, pc, local >>

\* delete
article_delete(p, auth_user, article_id) ==
    /\ pc[p] = "idle"
    /\ auth_user \in users
    /\ LET target == delete_target(articles, article_id)
           deleted_ids == {articles[i].id : i \in target}
       IN  /\ articles' = Filter(articles, DOMAIN articles \ target)
           /\ article_tags' = cascade_delete(article_tags, deleted_ids)
    /\ response' = Resp("delete", p, "Ok", NoArticle)
    /\ UNCHANGED << users, follows, tags, pc, local >>

\* articles.inner_join(users::table).offset(offset).limit(limit)
index_page(table, user_rows) ==
    LET joined == Filter(table, {i \in DOMAIN table :
                                   \E u \in user_rows : u.id = table[i].author_id})
        pairs == [i \in DOMAIN joined |->
                    [article |-> joined[i],
                     user |-> CHOOSE u \in user_rows : u.id = joined[i].author_id]]
        last == IF offset + limit < Len(pairs) THEN offset + limit ELSE Len(pairs)
    IN  SubSeq(pairs, offset + 1, last)

\* Tag::belonging_to(&articles_list).load, then grouped_by(&articles_list):
\* one group per listed article, in the order of the list.
index_tags(assoc, articles_list) ==
    [i \in DOMAIN articles_list |-> {at[2] : at \in {x \in assoc : x[1] = articles_list[i].id}}]

\* articles.select(count(id)).first()
articles_count(table) == Len(table)

IndexOut(items, count) == [items |-> items, count |-> count]

\* index, first query: the page of articles joined with their authors.
article_index_page(p, auth_user) ==
    /\ pc[p] = "idle"
    /\ auth_user \in users
    /\ LET article_and_user_list == index_page(articles, users)
       IN  local' = [local EXCEPT ![p] =
                       [article_ids |-> {x.article.id : x \in Range(article_and_user_list)},
                        article_and_user_list |-> article_and_user_list]]
    /\ pc' = [pc EXCEPT ![p] = "index_tags"]
    /\ response' = Resp("index", p, "running", IndexOut(<< >>, 0))
    /\ UNCHANGED << users, follows, articleVars >>

\* index, second query: the tags of the listed articles, grouped by article.
article_index_tags(p) ==
    /\ pc[p] = "index_tags"
    /\ LET articles_list == [i \in DOMAIN local[p].article_and_user_list |->
                               local[p].article_and_user_list[i].article]
           tags_list == index_tags(article_tags, articles_list)
       IN  local' = [local EXCEPT ![p] =
                       [article_ids |-> local[p].article_ids,
                        articles_list |->
                          [i \in DOMAIN tags_list |->
                             [article |-> local[p].article_and_user_list[i].article,
                              user |-> local[p].article_and_user_list[i].user,
                              tags |-> tags_list[i]]]]]
    /\ pc' = [pc EXCEPT ![p] = "index_count"]
    /\ response' = Resp("index", p, "running", IndexOut(<< >>, 0))
    /\ UNCHANGED << users, follows, articleVars >>

\* index, third query: the count of all article rows; the response.
article_index_count(p) ==
    /\ pc[p] = "index_count"
    /\ response' = Resp("index", p, "Ok",
                        IndexOut(local[p].articles_list, articles_count(articles)))
    /\ pc' = [pc EXCEPT ![p] = "idle"]
    /\ local' = [local EXCEPT ![p] = None]
    /\ UNCHANGED << users, follows, articleVars >>

\* ------------------------------------------------------------ specifications

Init ==
    /\ users = {}
    /\ follows = [pr \in Pairs |-> 0]
    /\ articles = << >>
    /\ tags = {}
    /\ article_tags = {}
    /\ pc = [p \in Procs |-> "idle"]
    /\ local = [p \in Procs |-> None]
    /\ response = Resp("none", 0, "none", NoOut)

\* The changesets that touch the credentials only.
CredentialChanges == {cs \in UpdatableUser : cs.image = None /\ cs.bio = None}

\* The user store's credential handlers, one request at a time: every
\* handler is one statement.
NextUser ==
    \/ \E e \in Emails, u \in Usernames, pw \in Passwords : User_signup(1, e, u, pw)
    \/ \E e \in Emails, pw \in Passwords : User_signin(1, e, pw)
    \/ \E id \in UserIds, cs \in CredentialChanges : User_update(1, id, cs)

SpecUser == Init /\ [][NextUser]_vars

\* Every handler, for every request in flight.  The specifications below are
\* this one restricted to the handlers and inputs a property is about.
Next ==
    \E p \in Procs :
        \/ \E e \in Emails, u \in Usernames, pw \in Passwords : User_signup(p, e, u, pw)
        \/ \E e \in Emails, pw \in Passwords : User_signin(p, e, pw)
        \/ \E id \in UserIds, cs \in UpdatableUser : User_update(p, id, cs)
        \/ \E self \in users, u \in Usernames \cup {"carol"} : User_follow_lookup(p, self, u)
        \/ User_follow_insert(p)
        \/ \E self \in users, u \in Usernames \cup {"carol"} : User_unfollow_lookup(p, self, u)
        \/ User_unfollow_delete(p)
        \/ \E self \in users, id \in UserIds : User_is_following(p, self, id)
        \/ \E auth_user \in users : article_index_page(p, auth_user)
        \/ article_index_tags(p)
        \/ article_index_count(p)
        \/ \E auth_user \in users,
              form \in CreateForm(Titles, Descriptions, Bodies, SUBSET TagNames) :
              article_create_insert(p, auth_user, form)
        \/ article_create_tags(p)
        \/ \E auth_user \in users, id \in ArticleIds,
              form \in UpdateForm(Titles, Descriptions, Bodies) :
              article_update(p, auth_user, id, form)
        \/ \E auth_user \in users, id \in ArticleIds : article_delete(p, auth_user, id)

Spec == Init /\ [][Next]_vars

\* The users table after alice and bob have signed up.
Registered ==
    LET one == db_insert_user({}, SignupUser("a@x", "alice", hash_password("pw1", "s1")), 1)
    IN  db_insert_user(one.table, SignupUser("b@x", "bob", hash_password("pw2", "s2")), 2).table

InitRegistered ==
    /\ users = Registered
    /\ follows = [pr \in Pairs |-> 0]
    /\ articles = << >>
    /\ tags = {}
    /\ article_tags = {}
    /\ pc = [p \in Procs |-> "idle"]
    /\ local = [p \in Procs |-> None]
    /\ response = Resp("none", 0, "none", NoOut)

\* The follow handlers of concurrent requests, interleaved between statements.
NextFollow ==
    \/ \E p \in Procs, self \in users, u \in Usernames \cup {"carol"} :
          User_follow_lookup(p, self, u)
    \/ \E p \in Procs : User_follow_insert(p)
    \/ \E p \in Procs, self \in users, u \in Usernames \cup {"carol"} :
          User_unfollow_lookup(p, self, u)
    \/ \E p \in Procs : User_unfollow_delete(p)
    \/ \E p \in Procs, self \in users, id \in UserIds : User_is_following(p, self, id)

SpecFollow == InitRegistered /\ [][NextFollow]_vars

\* The article handlers, one request at a time, over titles.
NextSlug ==
    \/ \E auth_user \in users, form \in CreateForm(Titles, {"d1"}, {"b1"}, {{}}) :
          article_create_insert(1, auth_user, form)
    \/ article_create_tags(1)
    \/ \E auth_user \in users, id \in ArticleIds, form \in UpdateForm(Titles, {"d2"}, {}) :
          article_update(1, auth_user, id, form)

SpecSlug == InitRegistered /\ [][NextSlug]_vars

\* The article handlers, one request at a time, over tag lists.
NextDelete ==
    \/ \E auth_user \in users,
          form \in CreateForm({<< "H", "i" >>}, {"d1"}, {"b1"}, SUBSET TagNames) :
          article_create_insert(1, auth_user, form)
    \/ article_create_tags(1)
    \/ \E auth_user \in users, id \in ArticleIds : article_delete(1, auth_user, id)

SpecDelete == InitRegistered /\ [][NextDelete]_vars

\* A listing request, interleaved with the writes of the other requests.
NextIndex ==
    \/ \E auth_user \in users : article_index_page(1, auth_user)
    \/ article_index_tags(1)
    \/ article_index_count(1)
    \/ \E p \in Procs \ {1}, auth_user \in users,
          form \in CreateForm({<< "H", "i" >>}, {"d1"}, {"b1"}, {{}, {"t1"}}) :
          article_create_insert(p, auth_user, form)
    \/ \E p \in Procs \ {1} : article_create_tags(p)
    \/ \E p \in Procs \ {1}, auth_user \in users, id \in ArticleIds :
          article_delete(p, auth_user, id)

SpecIndex == InitRegistered /\ [][NextIndex]_vars

\* Database states reached by signups, profile updates and article creations.
Alice(bio, image) ==
    [id |-> 1, email |-> "a@x", username |-> "alice",
     password |-> hash_password("pw1", "s1"), bio |-> bio, image |-> image]
Bob == [id |-> 2, email |-> "b@x", username |-> "bob",
        password |-> hash_password("pw2", "s2"), bio |-> Some("bio1"), image |-> None]
UserSamples ==
    {{Alice(b, i)} : b \in Option(Bios), i \in Option(Images)}
    \cup {{Alice(b, i), Bob} : b \in Option(Bios), i \in Option(Images)}
FirstArticle ==
    db_insert_article(<< >>, NewArticle(Alice(None, None),
        [title |-> << "H", "i" >>, description |-> "d1", body |-> "b1"]), 1).table
SecondArticle ==
    db_insert_article(FirstArticle, NewArticle(Bob,
        [title |-> << " ", "H", "i", "!" >>, description |-> "d2", body |-> "b2"]), 2).table
ArticleSamples == {<< >>, FirstArticle, SecondArticle}

InitUpdate ==
    /\ users \in UserSamples
    /\ follows = [pr \in Pairs |-> 0]
    /\ articles \in {a \in ArticleSamples :
                       \A x \in Range(a) : \E u \in users : u.id = x.author_id}
    /\ tags = {"t1"}
    /\ article_tags = {<< a.id, "t1" >> : a \in Range(articles)}
    /\ pc = [p \in Procs |-> "idle"]
    /\ local = [p \in Procs |-> None]
    /\ response = Resp("none", 0, "none", NoOut)

\* One partial update, of a user or of an article, on such a database.
NextUpdate ==
    \/ \E id \in UserIds, cs \in UpdatableUser :
          response.op = "none" /\ User_update(1, id, cs)
    \/ \E auth_user \in users, id \in ArticleIds,
          form \in UpdateForm(Titles, Descriptions, Bodies) :
          response.op = "none" /\ article_update(1, auth_user, id, form)

SpecUpdate == InitUpdate /\ [][NextUpdate]_vars

\* ------------------------------------------------------------------ claims

\* A plaintext verifies against a stored password when the stored value is
\* the hash of that plaintext.
Verifies(pw, stored) == stored.kind = "bcrypt" /\ stored.text = pw

\* C1: signin(email, password) returns (User, token) if and only if a user
\* with that email exists and the password verifies against the stored hash;
\* an unknown email fails with NotFound, a wrong password for an existing
\* email fails with InvalidCredential and issues no token.
C1_SigninChecksPassword ==
    [][response'.op = "signin" =>
        \A e \in Emails, pw \in Passwords :
          User_signin(1, e, pw) =>
            LET rows == {r \in users : r.email = e}
                good == \E r \in rows : Verifies(pw, r.password)
            IN  /\ (response'.status = "Ok" /\ is_some(response'.out.token)) <=> good
                /\ rows = {} => response'.status = "NotFound"
                /\ (rows # {} /\ ~good) =>
                      (response'.status = "InvalidCredential" /\ response'.out.token = None)
      ]_vars

\* C2: after any sequence of signup and update operations every stored
\* password is a hash, never the plaintext the caller supplied.
C2_StoredPasswordsAreHashes == \A r \in users : r.password.kind = "bcrypt"

UniqueUsers ==
    \A r1, r2 \in users :
        r1 # r2 => (r1.id # r2.id /\ r1.email # r2.email /\ r1.username # r2.username)

\* C4: no two user rows ever share an email or a username, and a signup whose
\* email or username already exists fails with UniqueViolation, returns no
\* token and leaves the users table unchanged.
C4_UniqueEmailAndUsername ==
    /\ []UniqueUsers
    /\ [][response'.op = "signup" =>
          \A e \in Emails, u \in Usernames, pw \in Passwords :
            (User_signup(1, e, u, pw) /\ \E r \in users : r.email = e \/ r.username = u) =>
               /\ response'.status = "UniqueViolation"
               /\ response'.out.token = None
               /\ response'.out.user = None
               /\ users' = users
        ]_vars

\* C4 witness: a signup was rejected on the constraint while two users exist.
C4_Witness ==
    /\ response.op = "signup" /\ response.status = "UniqueViolation"
    /\ Cardinality(users) = 2

\* The step in which request p's follow inserts, and its unfollow deletes.
FollowInsertStep(p) == pc[p] = "follow_insert" /\ pc'[p] = "idle"
UnfollowDeleteStep(p) == pc[p] = "unfollow_delete" /\ pc'[p] = "idle"
PairOf(p) == << local[p].self.id, local[p].followee.id >>

\* C3: under any interleaving of follow and unfollow calls the follows table
\* holds at most one row per (follower_id, followee_id), and a follow for a
\* pair that already has a row fails and leaves the table unchanged.
C3_AtMostOneFollowRow ==
    /\ [](\A pr \in Pairs : follows[pr] <= 1)
    /\ [][\A p \in Procs :
            (FollowInsertStep(p) /\ follows[PairOf(p)] >= 1) =>
               /\ response'.status = "couldn't insert follow."
               /\ response'.out.profile = None
               /\ follows' = follows
        ]_vars

\* C3 witness: a follow of a pair that has a row was refused.
C3_Witness ==
    /\ response.op = "follow" /\ response.status = "couldn't insert follow."
    /\ follows[response.out.who] = 1

\* C5: is_following(A, B) is true right after A.follow(B) and false right
\* after A.unfollow(B), and the following flag of the Profile a call returns
\* is the value of is_following(A, B) when the call finishes.
C5_FollowingFlag ==
    [][\A p \in Procs :
          LET A == local[p].self
              B == local[p].followee
              now == is_following(follows', A, B.id)
              flag_ok == is_some(response'.out.profile) =>
                            unwrap(response'.out.profile).following = now
          IN  /\ FollowInsertStep(p) => (now /\ flag_ok)
              /\ UnfollowDeleteStep(p) =>
                    (~now /\ flag_ok /\ is_some(response'.out.profile))
      ]_vars

\* C5 witness: A's unfollow of B returned its Profile while B follows A and
\* another request's follow of (A, B) is about to insert.
C5_Witness ==
    /\ response.op = "unfollow" /\ response.status = "Ok"
    /\ is_some(response.out.profile)
    /\ ~unwrap(response.out.profile).following
    /\ response.out.who = << 1, 2 >>
    /\ follows[<< 2, 1 >>] = 1
    /\ \E q \in Procs : pc[q] = "follow_insert" /\ PairOf(q) = << 1, 2 >>

\* C9: unfollow raises no error, removes only the row (A, B) and leaves every
\* other row, (B, A) included, unchanged; when A does not follow B the table
\* is left unchanged.
C9_UnfollowFrame ==
    [][\A p \in Procs :
          UnfollowDeleteStep(p) =>
             /\ response'.status = "Ok"
             /\ follows' = [follows EXCEPT ![PairOf(p)] = 0]
             /\ follows[PairOf(p)] = 0 => follows' = follows
      ]_vars

\* C9 witness: A unfollowed B, whom A did not follow, while B follows A and A
\* follows A.
C9_Witness ==
    /\ response.op = "unfollow" /\ response.status = "Ok"
    /\ response.out.who = << 1, 2 >>
    /\ follows = [pr \in Pairs |-> IF pr \in {<< 2, 1 >>, << 1, 1 >>} THEN 1 ELSE 0]

\* C6: the stored slug of every article is the slug derived from its stored
\* title, and an update without a title leaves title and slug unchanged.
C6_SlugFollowsTitle ==
    /\ [](\A i \in DOMAIN articles :
            articles[i].slug = convert_title_to_slug(articles[i].title))
    /\ [][response'.op = "article_update" =>
          \A auth_user \in users, id \in ArticleIds,
             form \in {f \in UpdateForm(Titles, {"d2"}, {}) : f.title = None} :
            article_update(1, auth_user, id, form) =>
               /\ DOMAIN articles' = DOMAIN articles
               /\ \A i \in DOMAIN articles :
                     /\ articles'[i].title = articles[i].title
                     /\ articles'[i].slug = articles[i].slug
        ]_vars

\* C6 witness: an update gave the second article a new title, after an update
\* without a title had changed its description; its slug is that of the new
\* title.
C6_Witness ==
    /\ response.op = "article_update" /\ response.status = "Ok"
    /\ Len(articles) = 2
    /\ articles[2].description = "d2"
    /\ articles[2].title = << "H", "i", "!", " ", "Y", "o" >>
    /\ articles[2].slug = << "h", "i", "-", "y", "o" >>
    /\ articles[1].slug = << "h", "i" >>
    /\ articles[1].title = << " ", "H", "i", "!" >>

NoOrphans == \A at \in article_tags : \E a \in Range(articles) : a.id = at[1]

IndexPageStep(p) == pc[p] = "idle" /\ pc'[p] = "index_tags"
IndexTagsStep(p) == pc[p] = "index_tags" /\ pc'[p] = "index_count"
IndexCountStep(p) == pc[p] = "index_count" /\ pc'[p] = "idle"

\* C8: with fewer than limit rows in the table the list holds every article
\* row exactly once, in table order, each with its author and with its own tag
\* set, and total_count is the number of rows of the articles table when the
\* count query runs, whatever the other requests wrote in between.
C8_IndexListsEveryRow ==
    [][\A p \in Procs :
          /\ (IndexPageStep(p) /\ Len(articles) < limit) =>
                LET l == local'[p].article_and_user_list
                IN  /\ Len(l) = Len(articles)
                    /\ \A i \in DOMAIN l :
                          /\ l[i].article = articles[i]
                          /\ l[i].user \in users
                          /\ l[i].user.id = articles[i].author_id
          /\ IndexTagsStep(p) =>
                LET before == local[p].article_and_user_list
                    l == local'[p].articles_list
                IN  /\ Len(l) = Len(before)
                    /\ \A i \in DOMAIN l :
                          /\ l[i].article = before[i].article
                          /\ l[i].user = before[i].user
                          /\ l[i].tags = {t \in TagNames :
                                            << l[i].article.id, t >> \in article_tags}
          /\ IndexCountStep(p) =>
                /\ response'.out.items = local[p].articles_list
                /\ response'.out.count = Len(articles')
      ]_vars

\* C8 witness: a listing returned two articles, one of them tagged, and a
\* total_count of 1, an article having been deleted before the count query.
C8_Witness ==
    /\ response.op = "index" /\ response.status = "Ok"
    /\ Len(response.out.items) = 2
    /\ response.out.items[2].tags = {"t1"}
    /\ response.out.items[1].user.id # response.out.items[2].user.id
    /\ response.out.count = 1
    /\ Len(articles) = 1

\* C10: a partial update changes only the fields it provides, never an
\* article's id or author_id, and no row other than the one selected by id.
C10_PartialUpdateFrame ==
    [][/\ response'.op = "update" =>
          \A id \in UserIds, cs \in UpdatableUser :
            User_update(1, id, cs) =>
               /\ {r.id : r \in users'} = {r.id : r \in users}
               /\ Cardinality(users') = Cardinality(users)
               /\ articles' = articles
               /\ \A r \in users :
                     IF r.id # id THEN r \in users'
                     ELSE \E n \in users' :
                            /\ n.id = id
                            /\ cs.email = None => n.email = r.email
                            /\ cs.username = None => n.username = r.username
                            /\ cs.password = None => n.password = r.password
                            /\ cs.image = None => n.image = r.image
                            /\ cs.bio = None => n.bio = r.bio
       /\ response'.op = "article_update" =>
          \A auth_user \in users, id \in ArticleIds,
             form \in UpdateForm(Titles, Descriptions, Bodies) :
            article_update(1, auth_user, id, form) =>
               /\ users' = users
               /\ DOMAIN articles' = DOMAIN articles
               /\ \A i \in DOMAIN articles :
                     /\ articles'[i].id = articles[i].id
                     /\ articles'[i].author_id = articles[i].author_id
                     /\ articles[i].id # id => articles'[i] = articles[i]
                     /\ form.title = None => articles'[i].title = articles[i].title
                     /\ form.description = None =>
                           articles'[i].description = articles[i].description
                     /\ form.body = None => articles'[i].body = articles[i].body
      ]_vars

\* C10 witness: an update that provided a password and an image changed
\* alice's row and left her email, username and bio, and bob's row, as they
\* were.
C10_Witness ==
    /\ response.op = "update" /\ response.status = "Ok"
    /\ Bob \in users
    /\ \E r \in users :
          /\ r.id = 1 /\ r.email = "a@x" /\ r.username = "alice"
          /\ r.password = Plain("pw2")
          /\ r.bio = Some("bio1") /\ r.image = Some("img1")

====
